---- MODULE Spec2Model ----
(***************************************************************************)
(* Model of src/app.py: a Flask + SQLAlchemy task tracker with JWT auth.   *)
(* State: the User and Task tables, the database sequences, the set of     *)
(* access tokens issued so far, the bag of register requests in flight     *)
(* (register reads the database twice before it writes, and the server     *)
(* handles requests on concurrent threads), and the last HTTP response.    *)
(* Strings are sequences of characters.                                    *)
(***************************************************************************)
EXTENDS Integers, Sequences, FiniteSets, Bags, TLC

\* ------------------------------------------------------------------ bounds
MaxRegs == 2
MaxTaskId == 1
Threads == {1, 2}

\* --------------------------------------------------------------- constants
MinNameLen == 2
MinPasswordLen == 6
MinTldLen == 2

\* ------------------------------------------------------------ input values
\* a key absent from the JSON body, and a key whose value is JSON null
Missing == <<"<missing>">>
Null == <<"<null>">>
NoBody == [nobody |-> TRUE]

NameInputs == { <<"A", "n">>, <<" ", "A", " ">> }
\* what registrants type: mixed case with a leading blank, plain, malformed, empty
EmailInputs == { <<" ", "A", "@", "x", ".", "i", "o">>,
                 <<"b", "@", "x", ".", "i", "o">>,
                 <<"a", "x">>,
                 <<>> }
\* what is typed at login: the same, and the lower-case form of the first
LoginEmailInputs == EmailInputs \cup { <<"a", "@", "x", ".", "i", "o">> }
PasswordInputs == { <<1, 2, 3, 4, 5, 6>>, <<1, 2>>, <<>> }
TitleInputs == { Missing, Null, <<" ">>, <<"t">> }
DescriptionInputs == { Missing, <<"d">> }
RoleInputs == { "", "admin" }
\* the salt generate_password_hash draws
Salts == {1}

RegisterBodies == [name : NameInputs, email : EmailInputs, password : PasswordInputs]
LoginBodies == [email : LoginEmailInputs, password : PasswordInputs]
TaskBodies == {NoBody} \cup [title : TitleInputs, description : DescriptionInputs]
AdminBodies == [role : RoleInputs]
Dialects == {"sqlite", "postgresql"}

\* ---------------------------------------------------------- string helpers
Min(S) == CHOOSE x \in S : \A y \in S : x <= y
Max(S) == CHOOSE x \in S : \A y \in S : x >= y

UpperCase == {"A", "B", "X"}
LowerCase == {"a", "b", "x", "i", "o", "n", "t", "d"}
Letters == UpperCase \cup LowerCase

\* str.lower() on one character
LowerChar(c) == CASE c = "A" -> "a" [] c = "B" -> "b" [] c = "X" -> "x" [] OTHER -> c

\* str.lower()
Lower(s) == [i \in 1..Len(s) |-> LowerChar(s[i])]

\* str.strip()
Strip(s) ==
    LET keep == {i \in 1..Len(s) : s[i] # " "}
    IN IF keep = {} THEN <<>> ELSE SubSeq(s, Min(keep), Max(keep))

\* a JSON value that is a str
IsStr(v) == v # Missing /\ v # Null

\* ------------------------------------------------------ validation helpers
LocalChars == Letters \cup {".", "_", "%", "+", "-"}
DomainChars == Letters \cup {".", "-"}

validate_email(email) ==
    \E at \in 1..Len(email), dot \in 1..Len(email) :
        /\ at > 1
        /\ email[at] = "@"
        /\ \A i \in 1..(at - 1) : email[i] \in LocalChars
        /\ dot > at + 1
        /\ email[dot] = "."
        /\ \A i \in (at + 1)..(dot - 1) : email[i] \in DomainChars
        /\ Len(email) - dot >= MinTldLen
        /\ \A i \in (dot + 1)..Len(email) : email[i] \in Letters

validate_password(password) == Len(password) >= MinPasswordLen

\* werkzeug salted hash: the digest depends on the salt and the plaintext
Digest(salt, password) == [i \in 1..Len(password) |-> (password[i] + salt) % 10]
generate_password_hash(password, salt) ==
    [salt |-> salt, digest |-> Digest(salt, password)]
check_password_hash(pwhash, password) ==
    Digest(pwhash.salt, password) = pwhash.digest

VARIABLES dialect, users, tasks, seq, nregs, tokens, req, former, last
vars == <<dialect, users, tasks, seq, nregs, tokens, req, former, last>>

Response(op, status, message, body) ==
    [op |-> op, status |-> status, message |-> message, body |-> body]

Init ==
    /\ dialect \in Dialects
    /\ users = {}
    /\ tasks = {}
    /\ seq = [user |-> 0, task |-> 0]
    /\ nregs = 0
    /\ tokens = {}
    /\ req = EmptyBag
    /\ former = {}
    /\ last = Response("none", 0, "", {})

\* ---------------------------------------------------------- database layer
\* Integer primary key: SQLite takes max(rowid) + 1, PostgreSQL a sequence
NextId(rows, counter) ==
    IF dialect = "sqlite"
    THEN (IF rows = {} THEN 1 ELSE Max({r.id : r \in rows}) + 1)
    ELSE counter + 1

\* the sequence after an INSERT was attempted (nextval is never rolled back)
Advance(counter) == IF dialect = "sqlite" THEN counter ELSE counter + 1

\* the User table without the unique constraint on email
UserUniqueViolationDropped(email) == FALSE

\* User.email is declared unique=True
UserUniqueViolation(email) == \E u \in users : u.email = email

\* Task.user_id is a ForeignKey("user.id"); SQLite does not enforce foreign
\* keys unless PRAGMA foreign_keys is switched on, which app.py never does
TaskForeignKeyViolation(user_id) ==
    dialect = "postgresql" /\ ~ \E u \in users : u.id = user_id

\* ---------------------------------------------------------------- register
\* the in-flight request r moves on to r2, or is answered (r2 absent)
Proceed(r, r2) == (req (-) SetToBag({r})) (+) SetToBag({r2})
Answered(r) == req (-) SetToBag({r})

\* lines 163-190: validation and the existence pre-check, on a free thread
RegisterCheck(data) ==
    /\ BagCardinality(req) < Cardinality(Threads)
    /\ LET name == Strip(data.name)
           email == Lower(Strip(data.email))
           password == data.password
           error ==
               IF data.name = <<>> \/ data.email = <<>> \/ data.password = <<>>
               THEN "All fields are required"
               ELSE IF Len(name) < MinNameLen
               THEN "Name must be at least 2 characters"
               ELSE IF ~ validate_email(email)
               THEN "Invalid email format"
               ELSE IF ~ validate_password(password)
               THEN "Password must be at least 6 characters"
               ELSE IF \E u \in users : u.email = email
               THEN "Email already exists"
               ELSE ""
       IN IF error # ""
          THEN /\ last' = Response("register", 400, error, {})
               /\ UNCHANGED req
          ELSE /\ req' = req (+) SetToBag({[pc |-> "reg_count", name |-> name,
                                            email |-> email, password |-> password,
                                            raw |-> data.email, role |-> ""]})
               /\ UNCHANGED last
    /\ UNCHANGED <<dialect, users, tasks, seq, nregs, tokens, former>>

\* line 196: the role is decided by a second query, before the INSERT
RegisterCount(r) ==
    /\ r.pc = "reg_count"
    /\ req' = Proceed(r, [r EXCEPT !.pc = "reg_commit",
                                   !.role = IF Cardinality(users) = 0
                                            THEN "admin" ELSE "user"])
    /\ UNCHANGED <<dialect, users, tasks, seq, nregs, tokens, former, last>>

\* lines 206-214: INSERT and COMMIT, or IntegrityError and rollback.
\* uid numbers the successful registrations, plain and raw remember the
\* password and the email as the registrant typed them (history, not columns).
RegisterCommit(r) ==
    /\ r.pc = "reg_commit"
    /\ IF UserUniqueViolation(r.email)
       THEN /\ seq' = [seq EXCEPT !.user = Advance(@)]
            /\ seq'.user <= MaxRegs
            /\ last' = Response("register", 500, "Registration failed. Please try again.", {})
            /\ UNCHANGED <<users, nregs>>
       ELSE \E salt \in Salts :
            LET id == NextId(users, seq.user)
            IN /\ id <= MaxRegs
               /\ nregs < MaxRegs
               /\ users' = users \cup
                     {[id |-> id, name |-> r.name, email |-> r.email,
                       password |-> generate_password_hash(r.password, salt),
                       role |-> r.role,
                       uid |-> nregs + 1, plain |-> r.password, raw |-> r.raw]}
               /\ seq' = [seq EXCEPT !.user = Advance(@)]
               /\ nregs' = nregs + 1
               /\ last' = Response("register", 201, "User registered successfully", {})
    /\ req' = Answered(r)
    /\ UNCHANGED <<dialect, tasks, tokens, former>>

\* ------------------------------------------------------------------- login
\* the claim set signed into the token; uid is history, carried along to tell
\* which registration the token was issued to
Claims(user) ==
    [id |-> user.id, email |-> user.email, name |-> user.name,
     role |-> user.role, uid |-> user.uid]

login_api(data) ==
    /\ IF data.email = <<>> \/ data.password = <<>>
       THEN /\ last' = Response("login", 400, "Email and password required", {})
            /\ UNCHANGED tokens
       ELSE LET found == {u \in users : u.email = data.email}
            IN IF found = {} \/ \E u \in found : ~ check_password_hash(u.password, data.password)
               THEN /\ last' = Response("login", 401, "Invalid credentials", {})
                    /\ UNCHANGED tokens
               ELSE LET user == CHOOSE u \in found : TRUE
                    IN /\ tokens' = tokens \cup {Claims(user)}
                       /\ last' = Response("login", 200, "Login successful", {Claims(user)})
    /\ UNCHANGED <<dialect, users, tasks, seq, nregs, req, former>>

\* ------------------------------------------------------------------- tasks
\* Task.query.filter_by(user_id=user_id)
TasksOfUser(user_id) == {t \in tasks : t.user_id = user_id}

\* Task.query.filter_by(id=task_id, user_id=user_id)
ScopedTask(task_id, user_id) == {t \in tasks : t.id = task_id /\ t.user_id = user_id}

TaskView(t) == [id |-> t.id, title |-> t.title, description |-> t.description]

\* creator is the registration (uid) whose token created the task: history,
\* not a column
create_task(claims, data) ==
    /\ LET user_id == claims.id
           empty == data = NoBody \/ (data.title = Missing /\ data.description = Missing)
           title == IF ~ empty /\ IsStr(data.title) THEN Strip(data.title) ELSE <<>>
           description == IF ~ empty /\ IsStr(data.description)
                          THEN Strip(data.description) ELSE <<>>
           id == NextId(tasks, seq.task)
       IN IF empty
          THEN /\ last' = Response("create_task", 400, "Request body is required", {})
               /\ UNCHANGED <<tasks, seq, former>>
          ELSE IF title = <<>>
          THEN /\ last' = Response("create_task", 400, "Task title is required", {})
               /\ UNCHANGED <<tasks, seq, former>>
          ELSE /\ id <= MaxTaskId
               /\ seq' = [seq EXCEPT !.task = Advance(@)]
               /\ IF TaskForeignKeyViolation(user_id)
                  THEN /\ last' = Response("create_task", 500, "Failed to create task", {})
                       /\ UNCHANGED <<tasks, former>>
                  ELSE /\ tasks' = tasks \cup
                              {[id |-> id, title |-> title, description |-> description,
                                user_id |-> user_id, creator |-> claims.uid]}
                       /\ former' = former \ {id}
                       /\ last' = Response("create_task", 201, "Task created", {[id |-> id]})
    /\ UNCHANGED <<dialect, users, nregs, tokens, req>>

get_tasks(claims) ==
    /\ last' = Response("get_tasks", 200, "", {TaskView(t) : t \in TasksOfUser(claims.id)})
    /\ UNCHANGED <<dialect, users, tasks, seq, nregs, tokens, req, former>>

\* line 445 reads the undefined name identity: NameError, an unhandled
\* exception, which Flask answers with 500.  A null body (AttributeError on
\* data.get) and a null title (NOT NULL constraint at commit) end the same way.
update_task(claims, task_id, data) ==
    /\ LET found == ScopedTask(task_id, claims.id)
       IN IF found = {}
          THEN /\ last' = Response("update_task", 500, "Internal Server Error", {})
               /\ UNCHANGED tasks
          ELSE LET task == CHOOSE t \in found : TRUE
                   title == IF data.title = Missing THEN task.title ELSE data.title
                   description == IF data.description = Missing
                                  THEN task.description ELSE data.description
               IN IF data = NoBody \/ title = Null
                  THEN /\ last' = Response("update_task", 500, "Internal Server Error", {})
                       /\ UNCHANGED tasks
                  ELSE /\ tasks' = (tasks \ {task}) \cup
                              {[task EXCEPT !.title = title, !.description = description]}
                       /\ last' = Response("update_task", 200, "Task updated", {})
    /\ UNCHANGED <<dialect, users, seq, nregs, tokens, req, former>>

delete_task(claims, task_id) ==
    /\ LET found == ScopedTask(task_id, claims.id)
       IN IF found = {}
          THEN /\ last' = Response("delete_task", 404, "Task not found", {})
               /\ UNCHANGED tasks
          ELSE /\ tasks' = tasks \ found
               /\ last' = Response("delete_task", 200, "Task deleted", {})
    /\ UNCHANGED <<dialect, users, seq, nregs, tokens, req, former>>

\* ------------------------------------------------------------------- admin
\* a decorator that also trusts a role supplied in the request body
admin_required_trusting_body(claims, data) ==
    claims.role = "admin" \/ data.role = "admin"

\* the decorator reads the role from the token's claims; the request body
\* (data) is not consulted
admin_required(claims, data) == claims.role = "admin"

Forbidden(op) == Response(op, 403, "Admin access required", {})

UserView(u) == [id |-> u.id, name |-> u.name, email |-> u.email, role |-> u.role]

get_all_users(claims, data) ==
    /\ IF ~ admin_required(claims, data)
       THEN last' = Forbidden("get_all_users")
       ELSE last' = Response("get_all_users", 200, "", {UserView(u) : u \in users})
    /\ UNCHANGED <<dialect, users, tasks, seq, nregs, tokens, req, former>>

\* former collects the ids of tasks removed together with their user
\* (history, not a column)
delete_user(claims, user_id, data) ==
    /\ IF ~ admin_required(claims, data)
       THEN /\ last' = Forbidden("delete_user")
            /\ UNCHANGED <<users, tasks, former>>
       ELSE IF ~ \E u \in users : u.id = user_id
       THEN /\ last' = Response("delete_user", 404, "User not found", {})
            /\ UNCHANGED <<users, tasks, former>>
       ELSE /\ tasks' = tasks \ TasksOfUser(user_id)
            /\ users' = {u \in users : u.id # user_id}
            /\ former' = former \cup {t.id : t \in TasksOfUser(user_id)}
            /\ last' = Response("delete_user", 200, "User deleted successfully", {})
    /\ UNCHANGED <<dialect, seq, nregs, tokens, req>>

delete_all_users(claims, data) ==
    /\ IF ~ admin_required(claims, data)
       THEN /\ last' = Forbidden("delete_all_users")
            /\ UNCHANGED <<users, tasks>>
       ELSE /\ tasks' = {}
            /\ users' = {u \in users : u.id = claims.id}
            /\ last' = Response("delete_all_users", 200, "All users deleted successfully", {})
    /\ UNCHANGED <<dialect, seq, nregs, tokens, req, former>>

TaskIds == 1..MaxTaskId
UserIds == 1..MaxRegs

Next ==
    \/ \E data \in RegisterBodies : RegisterCheck(data)
    \/ \E r \in BagToSet(req) : RegisterCount(r)
    \/ \E r \in BagToSet(req) : RegisterCommit(r)
    \/ \E data \in LoginBodies : login_api(data)
    \/ \E claims \in tokens, data \in TaskBodies : create_task(claims, data)
    \/ \E claims \in tokens : get_tasks(claims)
    \/ \E claims \in tokens, task_id \in TaskIds, data \in TaskBodies :
          update_task(claims, task_id, data)
    \/ \E claims \in tokens, task_id \in TaskIds : delete_task(claims, task_id)
    \/ \E claims \in tokens, data \in AdminBodies : get_all_users(claims, data)
    \/ \E claims \in tokens, user_id \in UserIds, data \in AdminBodies :
          delete_user(claims, user_id, data)
    \/ \E claims \in tokens, data \in AdminBodies : delete_all_users(claims, data)

Spec == Init /\ [][Next]_vars

\* The credential and identity component alone: the operations that read or
\* write the User table.  No task operation touches users, tokens or req, so
\* the User tables reachable here are exactly those reachable under Spec.
NextUsers ==
    \/ \E data \in RegisterBodies : RegisterCheck(data)
    \/ \E r \in BagToSet(req) : RegisterCount(r)
    \/ \E r \in BagToSet(req) : RegisterCommit(r)
    \/ \E data \in LoginBodies : login_api(data)
    \/ \E claims \in tokens, data \in AdminBodies : get_all_users(claims, data)
    \/ \E claims \in tokens, user_id \in UserIds, data \in AdminBodies :
          delete_user(claims, user_id, data)
    \/ \E claims \in tokens, data \in AdminBodies : delete_all_users(claims, data)

SpecUsers == Init /\ [][NextUsers]_vars

\* ================================================================== claims

\* C1: only the first successfully registered user (uid 1) is ever stored
\* with role admin; every later successful Register stores role user.
C1_OnlyFirstRegistrantIsAdmin ==
    \A u \in users : u.role = "admin" => u.uid = 1

\* C2: Update task and Delete task, called with a verified token for a task
\* id that is owned by another user or does not exist, answer 404 and leave
\* the task table unchanged.
C2_ForeignOrMissingTaskIsNotFound ==
    [][\A claims \in tokens, task_id \in TaskIds :
          ScopedTask(task_id, claims.id) = {} =>
             /\ delete_task(claims, task_id) => (last'.status = 404 /\ tasks' = tasks)
             /\ \A data \in TaskBodies :
                   update_task(claims, task_id, data) =>
                      (last'.status = 404 /\ tasks' = tasks)]_vars

\* C3: every admin operation (list users, delete one user, delete all users)
\* called with a token whose role claim is not admin answers 403 and leaves
\* the user and task tables unchanged, whatever the request body supplies.
C3_NonAdminIsForbidden ==
    [][\A claims \in tokens, data \in AdminBodies :
          (/\ claims.role # "admin"
           /\ \/ get_all_users(claims, data)
              \/ delete_all_users(claims, data)
              \/ \E user_id \in UserIds : delete_user(claims, user_id, data))
          => (last'.status = 403 /\ users' = users /\ tasks' = tasks)]_vars

\* C3 witness: a non-admin caller has just been refused delete-all while the
\* store held another user and a task that the operation would have removed.
C3_Witness ==
    /\ last.op = "delete_all_users" /\ last.status = 403
    /\ \E claims \in tokens : claims.role # "admin"
    /\ Cardinality(users) > 1
    /\ tasks # {}

\* C4: for every existing user, Authenticate with the email as the registrant
\* submitted it succeeds exactly when the submitted password is the
\* registered one.
C4_LoginWithSubmittedEmail ==
    [][\A data \in LoginBodies :
          (login_api(data) /\ \E u \in users : u.raw = data.email) =>
             (last'.status = 200 <=>
                 \E u \in users : u.raw = data.email /\ u.plain = data.password)]_vars

\* C5: when Delete one user succeeds for a user, no task of that user is
\* left, and every later Update task or Delete task on one of the former
\* task ids (not reassigned since) answers 404.
C5_FormerTasksAreNotFound ==
    [][/\ \A claims \in tokens, user_id \in UserIds, data \in AdminBodies :
            (delete_user(claims, user_id, data) /\ last'.status = 200) =>
               {t \in tasks' : t.user_id = user_id} = {}
       /\ \A claims \in tokens, task_id \in former :
            /\ delete_task(claims, task_id) => last'.status = 404
            /\ \A data \in TaskBodies :
                  update_task(claims, task_id, data) => last'.status = 404]_vars

\* C6: no reachable User table holds two users with the same normalized
\* (trimmed, lower-cased) email, and a registration that loses the race
\* leaves no record: there are never more users than successful registrations.
C6_EmailUnique ==
    /\ \A u, v \in users :
          Lower(Strip(u.email)) = Lower(Strip(v.email)) => u = v
    /\ Cardinality(users) <= nregs

\* C6 witness: a registration passed the existence pre-check, lost the race
\* and was rejected by the store while the winner's record is stored.
C6_Witness ==
    /\ last.op = "register" /\ last.status = 500
    /\ users # {}

\* C7: a token issued to a user lists, updates and deletes only tasks that
\* this user created.
C7_TokenReachesOnlyOwnTasks ==
    [][\A claims \in tokens :
          /\ get_tasks(claims) =>
                \A v \in last'.body : \A t \in tasks :
                    t.id = v.id => t.creator = claims.uid
          /\ \A task_id \in TaskIds :
                /\ delete_task(claims, task_id) =>
                      \A t \in tasks \ tasks' : t.creator = claims.uid
                /\ \A data \in TaskBodies :
                      update_task(claims, task_id, data) =>
                         \A t \in tasks \ tasks' : t.creator = claims.uid]_vars

\* C8: a task persisted by Create task is owned by a user that exists in the
\* store at that moment, and the owner of a stored task never changes.
C8_OwnerExistsAndIsImmutable ==
    [][/\ \A claims \in tokens, data \in TaskBodies :
            create_task(claims, data) =>
               \A t \in tasks' \ tasks : \E u \in users : u.id = t.user_id
       /\ \A t \in tasks, t2 \in tasks' : t.id = t2.id => t.user_id = t2.user_id]_vars

\* C9: a task is removed only by its owner's Delete task or by an
\* administrator deleting its owner; Delete all users keeps the calling
\* administrator's record and the calling administrator's own tasks.
C9_DeleteAllKeepsAdminTasks ==
    [][/\ \A claims \in tokens, data \in AdminBodies :
            (delete_all_users(claims, data) /\ last'.status = 200) =>
               /\ users' = {u \in users : u.id = claims.id}
               /\ tasks' = TasksOfUser(claims.id)
       /\ \A t \in tasks :
            (~ \E t2 \in tasks' : t2.id = t.id) =>
               \/ last'.op = "delete_task"
               \/ /\ last'.op \in {"delete_user", "delete_all_users"}
                  /\ ~ \E u \in users' : u.id = t.user_id]_vars

\* C10: every stored task has a title that is non-empty after trimming.
C10_StoredTitleNonEmpty ==
    \A t \in tasks : Strip(t.title) # <<>>
====
